---- MODULE Spec2Model ----
(***************************************************************************)
(* Model of the rating/review service of culero-api:                       *)
(*   src/src/reviews/reviews.service.ts   (ReviewsService)                 *)
(*   src/src/user/service/user.service.ts (UserService.calculateAvgRating) *)
(* The relational store (Prisma) is the tables reviews and favorites, the  *)
(* aggregate cache (Redis) is the function cache.  Every handler is one    *)
(* action; last holds the call that ran last and what it returned.         *)
(***************************************************************************)
EXTENDS Integers, Sequences, FiniteSets, TLC

\* ------------------------------------------------------------------ bounds
MaxUser == 2
MaxScore == 2
MaxReviews == 2
MaxCalls == 3
MaxLinks == 2

\* ------------------------------------------------------------------ domains
\* Rows of the User table (users are neither created nor deleted in scope).
Users == 1 .. MaxUser
\* An id that references no User row.
NoSuchId == MaxUser + 1
UserIds == Users \cup {NoSuchId}
\* Review ids the callers may name; MaxReviews + 1 never references a row.
ReviewIds == 1 .. (MaxReviews + 1)
Scores == 1 .. MaxScore
\* The requests that may be in flight at the same time.
Calls == 1 .. MaxCalls

\* JavaScript values.  null and undefined are kept apart from every number.
Null == [tag |-> "null"]
Undefined == [tag |-> "undefined"]

\* CreateReviewDto: three integer scores, each dimension taking every score,
\* and the optional anonymous flag.
Dim(s, k) == ((s - 1 + k) % MaxScore) + 1
Anonymity == {[tag |-> "bool", val |-> TRUE], [tag |-> "bool", val |-> FALSE], Undefined}
CreateReviewDto ==
    {[professionalism |-> Dim(s, 0), reliability |-> Dim(s, 1),
      communication |-> Dim(s, 2), anonymous |-> a] : s \in Scores, a \in Anonymity}

\* ------------------------------------------------------------------ numbers
RECURSIVE GCD(_, _)
GCD(a, b) == IF b = 0 THEN a ELSE GCD(b, a % b)

\* A number is an exact fraction in lowest terms (scores are non-negative).
Num(n, d) == LET g == GCD(n, d) IN [tag |-> "number", n |-> n \div g, d |-> d \div g]
Zero == Num(0, 1)
NumAdd(x, y) == Num(x.n * y.d + y.n * x.d, x.d * y.d)
NumDiv(x, k) == Num(x.n, x.d * k)

\* a ?? b
Coalesce(a, b) == IF a = Null \/ a = Undefined THEN b ELSE a
\* ToNumber as applied by the arithmetic operators: null is 0.
ToNumber(a) == IF a = Null THEN Zero ELSE a

\* ------------------------------------------------------------------ state
\* reviews:   the Review table, a sequence of rows; a row's id is its index
\*            (submittedBy records who made the call, it is no column).
\* favorites: the FavoriteReview table, a set of (userId, reviewId) pairs.
\* cache:     the Redis store, one slot per avg-ratings-{userId} key.
\* last:      the call made last, its arguments and what it returned.
\* calls:     the calls in flight when handlers interleave, one slot per
\*            concurrent request.
\* pictures:  the profilePictureUrl column of the User table.
\* bucket:    the objects of the S3 bucket, by key.
\* linked:    the LinkedSocialAccount table, a sequence of rows.
VARIABLES reviews, favorites, cache, last, calls, pictures, bucket, linked
vars == <<reviews, favorites, cache, last, calls, pictures, bucket, linked>>
\* What the handlers of the user service own, and what the handlers of the
\* review service leave alone when each runs as one step.
userVars == <<pictures, bucket, linked>>
reviewVars == <<reviews, favorites, cache>>

\* ------------------------------------------------------------------ Prisma
\* review.aggregate({where: {postedToId}, _avg: ...}): the mean of a column
\* over the matching rows, null when no row matches.
RECURSIVE SumOf(_, _, _, _)
SumOf(rows, userId, col, i) ==
    IF i = 0 THEN 0
    ELSE SumOf(rows, userId, col, i - 1)
         + (IF rows[i].postedToId = userId THEN rows[i][col] ELSE 0)
CountOf(rows, userId) == Cardinality({i \in DOMAIN rows : rows[i].postedToId = userId})
AggregateAvg(rows, userId, col) ==
    IF CountOf(rows, userId) = 0 THEN Null
    ELSE Num(SumOf(rows, userId, col, Len(rows)), CountOf(rows, userId))

\* user.findUnique({where: {id}})
FindUser(id) == IF id \in Users THEN [tag |-> "user", id |-> id] ELSE Null

\* The object the include of includeWithReview attaches to a row: the author
\* row and the favorites of the current user only.
includeWithReview(row, favs, currentUserId) ==
    [tag |-> "review", row |-> row,
     postedBy |-> IF row.postedById = Null THEN Null ELSE FindUser(row.postedById.val),
     favorites |-> {f \in favs : f.reviewId = row.id /\ f.userId = currentUserId}]

\* review.findUnique({where: {id}, include})
getReview(rows, favs, userId, reviewId) ==
    IF reviewId \in DOMAIN rows
    THEN includeWithReview(rows[reviewId], favs, userId)
    ELSE Null

\* A nullable id column holds Id(n) or Null.
Id(n) == [tag |-> "id", val |-> n]

\* favoriteReview.upsert({where: {userId_reviewId}, update: {}, create}):
\* inserts the pair unless it is there; both columns are foreign keys, so a
\* pair naming a missing user or review is rejected and nothing is inserted.
PrismaUpsert(favs, userId, reviewId, rows) ==
    IF userId \in Users /\ reviewId \in DOMAIN rows
    THEN favs \cup {[userId |-> userId, reviewId |-> reviewId]}
    ELSE favs

\* deleteMany semantics: an absent pair is no error.
PrismaDeleteMany(favs, userId, reviewId) ==
    [status |-> "ok", favs |-> favs \ {[userId |-> userId, reviewId |-> reviewId]}]

\* favoriteReview.delete({where: {userId_reviewId}}): removes the pair, and
\* throws the client's record-not-found error (P2025) when it is absent.
PrismaDelete(favs, userId, reviewId) ==
    IF [userId |-> userId, reviewId |-> reviewId] \in favs
    THEN [status |-> "ok", favs |-> favs \ {[userId |-> userId, reviewId |-> reviewId]}]
    ELSE [status |-> "RecordNotFound", favs |-> favs]

\* ------------------------------------------------------------------ Redis
\* The key `avg-ratings-${userId}`.
CacheKey(userId) == <<"avg-ratings-", userId>>
CacheKeys == {CacheKey(u) : u \in UserIds}
Absent == [tag |-> "absent"]
\* TTL of a key that has no expiry, as the TTL command reports it.
NoExpiry == 0 - 1
\* get(key): the stored string, null when the key is absent.
RedisGet(c, key) == IF c[key] = Absent THEN Null ELSE c[key].value
\* set(key, value) with no EX argument: the key is stored without expiry.
RedisSet(c, key, value) ==
    [c EXCEPT ![key] = [tag |-> "entry", value |-> value, ttl |-> NoExpiry]]

\* ------------------------------------------------------------------ JSON
\* JSON.stringify of a RatingDto: the text, as its sequence of tokens.
JSONstringify(o) ==
    [tag |-> "string",
     text |-> <<"professionalism", o.professionalism, "reliability", o.reliability,
                "communication", o.communication>>]
\* JSON.parse: null is converted to the text "null", which parses to null;
\* the text of an object parses to the object.
JSONparse(s) ==
    IF s = Null THEN Null
    ELSE [tag |-> "object", professionalism |-> s.text[2], reliability |-> s.text[4],
          communication |-> s.text[6]]

\* Truthiness of a JavaScript value.
JSTruthy(v) ==
    CASE v.tag \in {"null", "undefined"} -> FALSE
      [] v.tag = "number" -> v.n # 0
      [] v.tag = "bool" -> v.val
      [] v.tag = "string" -> v.text # <<>>
      [] OTHER -> TRUE

\* ------------------------------------------------------------------ results
Return(v) == [status |-> "ok", body |-> v]
Throw(e) == [status |-> e, body |-> Undefined]

\* ------------------------------------------------------------------ ReviewsService
\* The author identity left out of every shaped review.
transformReviewHidden(review, currentUserId) ==
    IF review = Null THEN Throw("TypeError")
    ELSE IF ~review.row.anonymous /\ review.postedBy = Null THEN Throw("TypeError")
    ELSE Return(
        [tag |-> "ReviewDto",
         postedBy |-> Undefined,
         isAnonymous |-> (review.postedBy = Null),
         professionalism |-> review.row.professionalism,
         reliability |-> review.row.reliability,
         communication |-> review.row.communication,
         isOwnReview |-> (review.row.postedById = Id(currentUserId)),
         postedToId |-> review.row.postedToId,
         id |-> review.row.id,
         isFavorite |-> (\E f \in review.favorites : f.userId = currentUserId)])

\* transformReview: the row shaped for the current user.  Reading a property
\* of a null review, or of the null author of a review that is not flagged
\* anonymous, throws a TypeError.
transformReview(review, currentUserId) ==
    IF review = Null THEN Throw("TypeError")
    ELSE IF ~review.row.anonymous /\ review.postedBy = Null THEN Throw("TypeError")
    ELSE Return(
        [tag |-> "ReviewDto",
         postedBy |-> IF ~review.row.anonymous
                        THEN [tag |-> "author", id |-> review.postedBy.id]
                        ELSE Undefined,
         isAnonymous |-> (review.postedBy = Null),
         professionalism |-> review.row.professionalism,
         reliability |-> review.row.reliability,
         communication |-> review.row.communication,
         isOwnReview |-> (review.row.postedById = Id(currentUserId)),
         postedToId |-> review.row.postedToId,
         id |-> review.row.id,
         isFavorite |-> (\E f \in review.favorites : f.userId = currentUserId)])

\* The averages as the store reports them, null for an empty set.
calculateAvgRatingNoDefault(rows, userId) ==
    [tag |-> "object",
     professionalism |-> AggregateAvg(rows, userId, "professionalism"),
     reliability |-> AggregateAvg(rows, userId, "reliability"),
     communication |-> AggregateAvg(rows, userId, "communication")]

\* ReviewsService.calculateAvgRating
calculateAvgRating(rows, userId) ==
    [tag |-> "object",
     professionalism |-> Coalesce(AggregateAvg(rows, userId, "professionalism"), Zero),
     reliability |-> Coalesce(AggregateAvg(rows, userId, "reliability"), Zero),
     communication |-> Coalesce(AggregateAvg(rows, userId, "communication"), Zero)]

\* UserService.calculateAvgRating: the same, plus the mean of the three
\* raw averages, which the + operator converts from null to 0.
calculateAvgRatingOverall(rows, userId) ==
    [tag |-> "object",
     professionalism |-> Coalesce(AggregateAvg(rows, userId, "professionalism"), Zero),
     reliability |-> Coalesce(AggregateAvg(rows, userId, "reliability"), Zero),
     communication |-> Coalesce(AggregateAvg(rows, userId, "communication"), Zero),
     overall |-> NumDiv(NumAdd(NumAdd(ToNumber(AggregateAvg(rows, userId, "professionalism")),
                                      ToNumber(AggregateAvg(rows, userId, "reliability"))),
                               ToNumber(AggregateAvg(rows, userId, "communication"))), 3)]

\* The checks in the other order: the self-review check first.
createReviewCheckSelfFirst(userId, postedToId) ==
    IF userId = postedToId THEN "BadRequestException"
    ELSE IF FindUser(postedToId) = Null THEN "NotFoundException"
    ELSE "ok"

\* The existence check alone, the self-review check left out.
createReviewCheckNoSelf(userId, postedToId) ==
    IF FindUser(postedToId) = Null THEN "NotFoundException" ELSE "ok"

\* createReview, the two checks before any write: the error thrown, or "ok".
createReviewCheck(userId, postedToId) ==
    IF FindUser(postedToId) = Null THEN "NotFoundException"
    ELSE IF userId = postedToId THEN "BadRequestException"
    ELSE "ok"

\* createReview: ratingDto.anonymous ?? false
anonymousOrFalse(dto) == Coalesce(dto.anonymous, [tag |-> "bool", val |-> FALSE]).val

\* The author stored whatever the anonymity flag.
postedByIdAlways(anonymous, userId) == Id(userId)

\* createReview: the postedById column of the new row.
postedByIdOf(anonymous, userId) == IF anonymous THEN Null ELSE Id(userId)

\* The cache left as it was after the insert.
updateCacheSkipped(c, rows, postedToId) == c

\* createReview, "Update the cache": the aggregate over the rows as they are
\* after the insert, written over the recipient's key.
updateCache(c, rows, postedToId) ==
    RedisSet(c, CacheKey(postedToId), JSONstringify(calculateAvgRating(rows, postedToId)))

\* A hit only when the cached professionalism average is non-zero.
cacheHitNonZero(cachedRatings) ==
    JSTruthy(cachedRatings) /\ JSTruthy(cachedRatings.professionalism)

\* getAvgUserRatings: if (cachedRatings)
cacheHit(cachedRatings) == JSTruthy(cachedRatings)

\* ------------------------------------------------------------------ history
\* How a call follows the call before it: a getAvgUserRatings right after
\* a createReview that inserted a row for the same recipient ("created-fresh"
\* when that createReview found no cache entry, "created-over" when it
\* overwrote one), a likeReview right after a likeReview of the same pair
\* ("liked-true" / "liked-false" by what that call answered), else "other".
Follows(op, user, target) ==
    IF op = "getAvgUserRatings" /\ last.op = "createReview" /\ last.path = "created"
       /\ last.target = target
    THEN (IF last.pre THEN "created-over" ELSE "created-fresh")
    ELSE IF op = "likeReview" /\ last.op = "likeReview" /\ last.user = user
            /\ last.target = target
    THEN (IF last.result.status = "ok" /\ last.result.body.isFavorite
          THEN "liked-true" ELSE "liked-false")
    ELSE "other"

\* The record of a call: its arguments (arg is the anonymous flag of the
\* CreateReviewDto, undefined elsewhere), its result, the branch it took and
\* whether the thing it addresses (cache key, favorite pair) was there before.
Called(op, user, target, arg, result, path, pre) ==
    [op |-> op, user |-> user, target |-> target, arg |-> arg, result |-> result,
     path |-> path, pre |-> pre, prev |-> Follows(op, user, target)]

\* A slot with no call in flight and no result kept.
Idle == [pc |-> "idle"]

\* ------------------------------------------------------------------ actions
Init ==
    /\ reviews = <<>>
    /\ favorites = {}
    /\ cache = [k \in CacheKeys |-> Absent]
    /\ calls = [c \in Calls |-> Idle]
    /\ pictures = [u \in Users |-> Null]
    /\ bucket = {}
    /\ linked = <<>>
    /\ last = [op |-> "none", user |-> NoSuchId, target |-> NoSuchId,
               arg |-> Undefined, result |-> Throw("none"), path |-> "none", pre |-> FALSE,
               prev |-> "other"]

\* createReview rejected by one of its two checks: nothing is written.
createReviewRejected(user, postedToId, dto) ==
    /\ createReviewCheck(user, postedToId) # "ok"
    /\ last' = Called("createReview", user, postedToId, dto.anonymous,
                      Throw(createReviewCheck(user, postedToId)), "rejected",
                      cache[CacheKey(postedToId)] # Absent)
    /\ UNCHANGED <<reviews, favorites, cache, calls, userVars>>

\* createReview whose insert the store rejects: postedById is a foreign key,
\* so a signed review by a user with no User row is not inserted.
createReviewForeignKey(user, postedToId, dto) ==
    /\ createReviewCheck(user, postedToId) = "ok"
    /\ postedByIdOf(anonymousOrFalse(dto), user) # Null
    /\ FindUser(user) = Null
    /\ last' = Called("createReview", user, postedToId, dto.anonymous, Throw("ForeignKeyViolation"),
                      "rejected", cache[CacheKey(postedToId)] # Absent)
    /\ UNCHANGED <<reviews, favorites, cache, calls, userVars>>

\* createReview that inserts the row, overwrites the recipient's cached
\* aggregate and returns the shaped review.
createReviewCreated(user, postedToId, dto) ==
    /\ createReviewCheck(user, postedToId) = "ok"
    /\ postedByIdOf(anonymousOrFalse(dto), user) = Null \/ FindUser(user) # Null
    /\ Len(reviews) < MaxReviews
    /\ LET anonymous == anonymousOrFalse(dto)
           row == [id |-> Len(reviews) + 1,
                   postedToId |-> postedToId,
                   postedById |-> postedByIdOf(anonymous, user),
                   professionalism |-> dto.professionalism,
                   reliability |-> dto.reliability,
                   communication |-> dto.communication,
                   anonymous |-> anonymous,
                   submittedBy |-> user]
           review == includeWithReview(row, favorites, user)
       IN /\ reviews' = Append(reviews, row)
          /\ cache' = updateCache(cache, Append(reviews, row), postedToId)
          /\ last' = Called("createReview", user, postedToId, dto.anonymous,
                            transformReview(review, user), "created",
                            cache[CacheKey(postedToId)] # Absent)
    /\ UNCHANGED <<favorites, calls, userVars>>

createReview ==
    \E user \in UserIds, postedToId \in UserIds, dto \in CreateReviewDto :
        \/ createReviewRejected(user, postedToId, dto)
        \/ createReviewForeignKey(user, postedToId, dto)
        \/ createReviewCreated(user, postedToId, dto)

\* getAvgUserRatings: the parsed cache value when it is truthy, otherwise the
\* aggregate, recomputed and written to the cache.
getAvgUserRatings ==
    \E userId \in UserIds :
        LET cachedRatings == JSONparse(RedisGet(cache, CacheKey(userId)))
            avgRatings == calculateAvgRating(reviews, userId)
        IN IF cacheHit(cachedRatings)
           THEN /\ last' = Called("getAvgUserRatings", NoSuchId, userId, Undefined,
                                  Return(cachedRatings), "hit",
                                  cache[CacheKey(userId)] # Absent)
                /\ UNCHANGED <<reviews, favorites, cache, calls, userVars>>
           ELSE /\ cache' = RedisSet(cache, CacheKey(userId), JSONstringify(avgRatings))
                /\ last' = Called("getAvgUserRatings", NoSuchId, userId, Undefined,
                                  Return(avgRatings), "miss",
                                  cache[CacheKey(userId)] # Absent)
                /\ UNCHANGED <<reviews, favorites, calls, userVars>>

\* likeReview.  The upsert is not awaited: the query is never sent, or it is
\* sent and lands before the review is fetched again, or after it.
UpsertOutcomes == {"unsent", "before", "after"}
likeReview ==
    \E user \in Users, reviewId \in ReviewIds, upsert \in UpsertOutcomes :
        LET upserted == PrismaUpsert(favorites, user, reviewId, reviews)
            fetched == IF upsert = "before" THEN upserted ELSE favorites
            review == getReview(reviews, fetched, user, reviewId)
        IN /\ favorites' = IF upsert = "unsent" THEN favorites ELSE upserted
           /\ last' = Called("likeReview", user, reviewId, Undefined,
                             transformReview(review, user),
                             upsert,
                             [userId |-> user, reviewId |-> reviewId] \in favorites)
           /\ UNCHANGED <<reviews, cache, calls, userVars>>

\* unlikeReview: deletes the pair, then fetches and shapes the review.
unlikeReview ==
    \E user \in Users, reviewId \in ReviewIds :
        LET deleted == PrismaDelete(favorites, user, reviewId)
            review == getReview(reviews, deleted.favs, user, reviewId)
        IN /\ favorites' = deleted.favs
           /\ last' = Called("unlikeReview", user, reviewId, Undefined,
                             IF deleted.status = "ok"
                               THEN transformReview(review, user)
                               ELSE Throw(deleted.status),
                             deleted.status,
                             [userId |-> user, reviewId |-> reviewId] \in favorites)
           /\ UNCHANGED <<reviews, cache, calls, userVars>>

\* The whole service.
Next ==
    \/ createReview
    \/ getAvgUserRatings
    \/ likeReview
    \/ unlikeReview

Spec == Init /\ [][Next]_vars

\* The rating half of the service: the handlers that read or write the Review
\* table and the aggregate cache.  likeReview and unlikeReview touch neither.
RatingNext ==
    \/ createReview
    \/ getAvgUserRatings

RatingSpec == Init /\ [][RatingNext]_vars

\* The favorite half: the handlers that read or write the FavoriteReview
\* table, with createReview to fill the Review table they refer to.
FavoriteNext ==
    \/ createReview
    \/ likeReview
    \/ unlikeReview

FavoriteSpec == Init /\ [][FavoriteNext]_vars

\* ------------------------------------------------------------------ claims
Failed(l, e) == l.result.status = e
NonEmptyCache == \E k \in CacheKeys : cache[k] # Absent

\* C1: a createReview whose recipientId references no User row (the acting
\* user's own id included) fails with NotFoundException and changes neither
\* the Review table nor the cache.
C1_NotFoundBeforeSelfCheck ==
    [][(last'.op = "createReview" /\ last'.target \notin Users)
         => /\ Failed(last', "NotFoundException")
            /\ reviews' = reviews
            /\ cache' = cache]_vars

\* C1 witness: a user with no User row rated their own id, with rows and
\* cache entries in place, and got NotFoundException.
C1_Witness ==
    /\ last.op = "createReview"
    /\ last.user = NoSuchId
    /\ last.target = NoSuchId
    /\ Failed(last, "NotFoundException")
    /\ Len(reviews) > 0
    /\ NonEmptyCache

\* C2: a createReview by an existing user for their own id fails with
\* BadRequestException, inserts no row and leaves the cache as it was.
C2_SelfReviewRejected ==
    [][(last'.op = "createReview" /\ last'.user = last'.target /\ last'.user \in Users)
         => /\ Failed(last', "BadRequestException")
            /\ reviews' = reviews
            /\ cache' = cache]_vars

\* C2 witness: an existing user who has reviews and a cached aggregate rated
\* themselves and got BadRequestException.
C2_Witness ==
    /\ last.op = "createReview"
    /\ last.user \in Users
    /\ last.user = last.target
    /\ Failed(last, "BadRequestException")
    /\ CountOf(reviews, last.user) > 0
    /\ cache[CacheKey(last.user)] # Absent

\* C3: every stored review flagged anonymous has a null author, every other
\* stored review has the submitting user as author, and a review submitted
\* with the flag unset is stored as not anonymous with its author.
C3_AnonymousMeansNoAuthor ==
    /\ \A i \in DOMAIN reviews :
          /\ reviews[i].anonymous => reviews[i].postedById = Null
          /\ ~reviews[i].anonymous => reviews[i].postedById = Id(reviews[i].submittedBy)
    /\ (last.op = "createReview" /\ last.path = "created" /\ last.arg = Undefined)
          => /\ ~reviews[Len(reviews)].anonymous
             /\ reviews[Len(reviews)].postedById = Id(last.user)

\* C3 witness: an anonymous review is stored and the last call stored a
\* review whose flag was left unset.
C3_Witness ==
    /\ last.op = "createReview"
    /\ last.path = "created"
    /\ last.arg = Undefined
    /\ \E i \in DOMAIN reviews : reviews[i].anonymous

\* avg is the per-dimension mean of the rows posted to userId (0 where there
\* is no row), stated by cross-multiplication.
IsAggregateOf(avg, rows, userId) ==
    \A col \in {"professionalism", "reliability", "communication"} :
        /\ avg[col].tag = "number"
        /\ avg[col].d > 0
        /\ IF CountOf(rows, userId) = 0
           THEN avg[col].n = 0
           ELSE avg[col].n * CountOf(rows, userId)
                  = SumOf(rows, userId, col, Len(rows)) * avg[col].d

\* C4: a getAvgUserRatings that directly follows a createReview which inserted
\* a row for the same recipient returns the aggregate over all of the
\* recipient's rows, the new one included, whether or not a cache entry
\* existed before the createReview.
C4_RoundTrip ==
    (last.op = "getAvgUserRatings" /\ last.prev \in {"created-fresh", "created-over"})
        => /\ last.result.status = "ok"
           /\ IsAggregateOf(last.result.body, reviews, last.target)

\* C4 witness: the round trip ran for a recipient whose earlier aggregate was
\* cached and who now has two reviews.
C4_Witness ==
    /\ last.op = "getAvgUserRatings"
    /\ last.prev = "created-over"
    /\ CountOf(reviews, last.target) = 2
    /\ reviews[1].professionalism # reviews[2].professionalism

\* C5: getAvgUserRatings for an id with no review returns exactly 0 in the
\* three dimensions, on the miss path and on the hit path, and the variant
\* that adds overall yields overall 0 for such an id.
C5_ZeroReviewsZeroAverages ==
    /\ (last.op = "getAvgUserRatings" /\ CountOf(reviews, last.target) = 0)
          => /\ last.result.status = "ok"
             /\ last.result.body.professionalism = [tag |-> "number", n |-> 0, d |-> 1]
             /\ last.result.body.reliability = [tag |-> "number", n |-> 0, d |-> 1]
             /\ last.result.body.communication = [tag |-> "number", n |-> 0, d |-> 1]
    /\ \A u \in UserIds :
          CountOf(reviews, u) = 0
             => calculateAvgRatingOverall(reviews, u)
                  = [tag |-> "object",
                     professionalism |-> [tag |-> "number", n |-> 0, d |-> 1],
                     reliability |-> [tag |-> "number", n |-> 0, d |-> 1],
                     communication |-> [tag |-> "number", n |-> 0, d |-> 1],
                     overall |-> [tag |-> "number", n |-> 0, d |-> 1]]

\* C5 witness: a later call for a user without reviews was served from the
\* cached zero aggregate, while another user does have reviews.
C5_Witness ==
    /\ last.op = "getAvgUserRatings"
    /\ last.path = "hit"
    /\ last.target \in Users
    /\ CountOf(reviews, last.target) = 0
    /\ Len(reviews) > 0

Pair(userId, reviewId) == [userId |-> userId, reviewId |-> reviewId]
ReturnedFavorite(l, b) ==
    /\ l.result.status = "ok"
    /\ l.result.body.tag = "ReviewDto"
    /\ l.result.body.isFavorite = b

\* C6: when likeReview is called twice in a row by the same user for the same
\* existing review, both calls return isFavorite = true and exactly one
\* FavoriteReview row exists for the pair afterwards.
C6_FavoriteIdempotent ==
    (last.op = "likeReview" /\ last.prev \in {"liked-true", "liked-false"}
       /\ last.target \in DOMAIN reviews)
        => /\ last.prev = "liked-true"
           /\ ReturnedFavorite(last, TRUE)
           /\ Cardinality({f \in favorites : f = Pair(last.user, last.target)}) = 1

C8_LikeMissingReviewNotFound ==
    (last.op = "likeReview" /\ last.target \notin DOMAIN reviews)
        => last.result.status \in {"NotFoundException", "RecordNotFound"}

C10_MissWriteHasExpiry ==
    (last.op = "getAvgUserRatings" /\ last.path = "miss")
        => /\ cache[CacheKey(last.target)] # Absent
           /\ cache[CacheKey(last.target)].ttl = 24 * 60 * 60

\* ================================================================== faults
\* createReview whose process stops between review.create and cache.set (the
\* two are separate awaits, no transaction spans them): the row is inserted,
\* the cache is left as it was, nothing is returned.
createReviewCrashed(user, postedToId, dto) ==
    /\ createReviewCheck(user, postedToId) = "ok"
    /\ postedByIdOf(anonymousOrFalse(dto), user) = Null \/ FindUser(user) # Null
    /\ Len(reviews) < MaxReviews
    /\ LET anonymous == anonymousOrFalse(dto)
           row == [id |-> Len(reviews) + 1,
                   postedToId |-> postedToId,
                   postedById |-> postedByIdOf(anonymous, user),
                   professionalism |-> dto.professionalism,
                   reliability |-> dto.reliability,
                   communication |-> dto.communication,
                   anonymous |-> anonymous,
                   submittedBy |-> user]
       IN /\ reviews' = Append(reviews, row)
          /\ last' = Called("createReview", user, postedToId, dto.anonymous,
                            Throw("ProcessStopped"), "crashed",
                            cache[CacheKey(postedToId)] # Absent)
    /\ UNCHANGED <<favorites, cache, calls, userVars>>

createReviewCrash ==
    \E user \in UserIds, postedToId \in UserIds, dto \in CreateReviewDto :
        createReviewCrashed(user, postedToId, dto)

\* getAvgUserRatings while the cache cannot be read: the promise of cache.get
\* rejects, nothing catches it, and the rejection is what the caller gets.
getAvgUserRatingsCacheDown ==
    \E userId \in UserIds :
        /\ last' = Called("getAvgUserRatings", NoSuchId, userId, Undefined,
                          Throw("RedisError"), "get-failed",
                          cache[CacheKey(userId)] # Absent)
        /\ UNCHANGED <<reviews, favorites, cache, calls, userVars>>

\* The rating half of the service with a process that may stop and a cache
\* that may be unreachable.
FaultNext ==
    \/ createReview
    \/ getAvgUserRatings
    \/ createReviewCrash
    \/ getAvgUserRatingsCacheDown

FaultSpec == Init /\ [][FaultNext]_vars

\* The cache entry of userId is there and is not the aggregate of the rows.
Stale(userId) ==
    /\ cache[CacheKey(userId)] # Absent
    /\ ~IsAggregateOf(JSONparse(cache[CacheKey(userId)].value), reviews, userId)

\* C11: after a createReview that stopped between the insert and the cache
\* write the row is still stored, and a cache entry that no longer matches the
\* rows is one that expires (24 hours), so that a later getAvgUserRatings
\* recomputes the aggregate.
C11_StaleEntryExpires ==
    /\ (last.op = "createReview" /\ last.path = "crashed")
          => /\ Len(reviews) > 0
             /\ reviews[Len(reviews)].postedToId = last.target
    /\ \A u \in UserIds : Stale(u) => cache[CacheKey(u)].ttl = 24 * 60 * 60

\* C15: a getAvgUserRatings whose cache read fails still answers with the
\* aggregate recomputed from the rows.
C15_CacheReadFailureFallsBack ==
    (last.op = "getAvgUserRatings" /\ last.path = "get-failed")
        => /\ last.result.status = "ok"
           /\ IsAggregateOf(last.result.body, reviews, last.target)

\* ================================================================== getUserReviews
\* review.findMany({where: {postedToId}, orderBy: {createdAt: 'desc'}}): the
\* rows posted to the user, newest first (rows are inserted in id order).
RECURSIVE FindManyNewestFirst(_, _, _)
FindManyNewestFirst(rows, postedToId, i) ==
    IF i = 0 THEN <<>>
    ELSE IF rows[i].postedToId = postedToId
         THEN <<rows[i]>> \o FindManyNewestFirst(rows, postedToId, i - 1)
         ELSE FindManyNewestFirst(rows, postedToId, i - 1)

\* getUserReviews: every review posted to postedToId, shaped for the caller.
\* An exception thrown while shaping one review is the result of the call.
getUserReviews ==
    \E user \in UserIds, postedToId \in UserIds :
        LET ratings == FindManyNewestFirst(reviews, postedToId, Len(reviews))
            shaped == [k \in DOMAIN ratings |->
                         transformReview(includeWithReview(ratings[k], favorites, user), user)]
            result == IF \E k \in DOMAIN shaped : shaped[k].status # "ok"
                      THEN Throw("TypeError")
                      ELSE Return([tag |-> "list",
                                   items |-> [k \in DOMAIN shaped |-> shaped[k].body]])
        IN /\ last' = Called("getUserReviews", user, postedToId, Undefined, result,
                             "listed", FALSE)
           /\ UNCHANGED <<reviews, favorites, cache, calls, userVars>>

\* The part of the service that creates reviews and lists them.
ViewNext ==
    \/ createReview
    \/ getUserReviews

ViewSpec == Init /\ [][ViewNext]_vars

\* The shaped reviews the last call returned.
Shown ==
    IF last.result.status # "ok" THEN {}
    ELSE IF last.op = "createReview" THEN {last.result.body}
    ELSE IF last.op = "getUserReviews"
         THEN {last.result.body.items[k] : k \in DOMAIN last.result.body.items}
    ELSE {}

\* C12: in what getUserReviews returns, an anonymous review has no author
\* identity, and its isOwnReview is true for the user who submitted it and
\* false for every other viewer.
C12_OwnAnonymousReviewRecognised ==
    last.op = "getUserReviews"
        => \A d \in Shown :
              reviews[d.id].anonymous
                 => /\ d.postedBy = Undefined
                    /\ d.isOwnReview = (reviews[d.id].submittedBy = last.user)

\* C13: every review returned by createReview or getUserReviews has no
\* postedBy when it is anonymous and has the submitting user as postedBy when
\* it is not, whoever the caller is.
C13_AuthorVisibility ==
    \A d \in Shown :
        d.postedBy = IF reviews[d.id].anonymous
                     THEN Undefined
                     ELSE [tag |-> "author", id |-> reviews[d.id].submittedBy]

\* C13 witness: a third party listed two reviews of a user, one anonymous and
\* one signed.
C13_Witness ==
    /\ last.op = "getUserReviews"
    /\ Cardinality(Shown) = 2
    /\ \E d \in Shown : reviews[d.id].anonymous
    /\ \E d \in Shown : ~reviews[d.id].anonymous
    /\ \A d \in Shown : reviews[d.id].submittedBy # last.user

\* C19: in every shaped review, isAnonymous is true exactly when postedBy is
\* left out.
C19_AnonymousFlagsAgree ==
    \A d \in Shown : d.isAnonymous <=> (d.postedBy = Undefined)

\* C19 witness: the recipient listed their reviews and got an anonymous one
\* (isAnonymous, no postedBy) next to a signed one.
C19_Witness ==
    /\ last.op = "getUserReviews"
    /\ last.user = last.target
    /\ \E d \in Shown : d.isAnonymous /\ d.postedBy = Undefined
    /\ \E d \in Shown : ~d.isAnonymous /\ d.postedBy # Undefined

\* ================================================================== UserService
\* The MIME types a data URL may declare.
MimeTypes == {"image/jpg", "image/jpeg", "image/png", "image/gif", "application/pdf"}
\* getMimeType(file): the type the data URL declares.
getMimeType(file) == file.mime
\* The files a caller may send.
Files == {[tag |-> "file", mime |-> m] : m \in MimeTypes}

\* Every type taken.
acceptedTypeAny(type) == TRUE

\* updateProfilePicture: the types that pass the check.
acceptedType(type) == type \in {"image/jpg", "image/jpeg", "image/png"}

\* Key: `profile-pictures/${user.id}`
PictureKey(userId) == <<"profile-pictures/", userId>>
\* profilePictureUrl: the public URL of that key.
PictureUrl(userId) == [tag |-> "url", path |-> PictureKey(userId)]

\* s3.send(PutObjectCommand): the object stored under its key, replacing any
\* object the key held.
PutObject(b, key, type) ==
    {o \in b : o.key # key} \cup {[key |-> key, contentType |-> type]}

\* The column written when the upload failed as well.
pictureAfterAlways(pics, userId, stored) ==
    IF userId \in Users THEN [pics EXCEPT ![userId] = PictureUrl(userId)] ELSE pics

\* updateProfilePicture: the profilePictureUrl column after the try block,
\* written only once s3.send has resolved.
pictureAfter(pics, userId, stored) ==
    IF stored /\ userId \in Users
    THEN [pics EXCEPT ![userId] = PictureUrl(userId)]
    ELSE pics

\* updateProfilePicture.  put is what s3.send does (resolve or reject);
\* user.update rejects when the caller has no User row.  Either rejection is
\* caught and reported as InternalServerErrorException.
updateProfilePictureRejected(user, file) ==
    /\ ~acceptedType(getMimeType(file))
    /\ last' = Called("updateProfilePicture", user, user,
                      [tag |-> "mime", type |-> getMimeType(file)],
                      Throw("BadRequestException"), "rejected", pictures # [u \in Users |-> Null])
    /\ UNCHANGED <<reviewVars, calls, userVars>>

updateProfilePictureSent(user, file, put) ==
    /\ acceptedType(getMimeType(file))
    /\ LET stored == (put = "resolves")
           updated == stored /\ user \in Users
       IN /\ bucket' = IF stored
                       THEN PutObject(bucket, PictureKey(user), getMimeType(file))
                       ELSE bucket
          /\ pictures' = pictureAfter(pictures, user, stored)
          /\ last' = Called("updateProfilePicture", user, user,
                            [tag |-> "mime", type |-> getMimeType(file)],
                            IF updated
                              THEN Return([tag |-> "user", id |-> user,
                                           profilePictureUrl |-> PictureUrl(user)])
                              ELSE Throw("InternalServerErrorException"),
                            IF ~stored THEN "put-failed"
                            ELSE IF updated THEN "updated" ELSE "update-failed",
                            pictures # [u \in Users |-> Null])
    /\ UNCHANGED <<reviewVars, calls, linked>>

updateProfilePicture ==
    \E user \in UserIds, file \in Files, put \in {"resolves", "rejects"} :
        \/ updateProfilePictureRejected(user, file)
        \/ updateProfilePictureSent(user, file, put)

\* The providers a caller may name.
Providers == {"google", "linkedin"}
\* No user.
NoOwner == NoSuchId

\* user.findUnique({where: {email}}) with the email undefined: the client
\* rejects the query, or finds no row, or (an undefined filter matching every
\* row) returns some row.  The owner of the external account's email plays no
\* part, because the email is never fetched.
FindUserByUndefinedEmail ==
    {[tag |-> "throws"], Null} \cup {FindUser(u) : u \in Users}

\* linkSocialAccount.  owner is the user whose email is the email of the
\* external account (NoOwner when no user has it); `email` is declared and
\* never assigned, so the lookup runs on undefined.
linkSocialAccountNotFound(userId, provider, owner) ==
    /\ FindUser(userId) = Null
    /\ last' = Called("linkSocialAccount", owner, userId, Undefined,
                      Throw("NotFoundException"), "rejected", linked # <<>>)
    /\ UNCHANGED <<reviewVars, calls, userVars>>

linkSocialAccountLookupFailed(userId, provider, owner, existingUser) ==
    /\ FindUser(userId) # Null
    /\ existingUser = [tag |-> "throws"]
    /\ last' = Called("linkSocialAccount", owner, userId, Undefined,
                      Throw("PrismaClientValidationError"), "lookup-failed", linked # <<>>)
    /\ UNCHANGED <<reviewVars, calls, userVars>>

linkSocialAccountConflict(userId, provider, owner, existingUser) ==
    /\ FindUser(userId) # Null
    /\ existingUser # [tag |-> "throws"]
    /\ existingUser # Null
    /\ existingUser.id # userId
    /\ last' = Called("linkSocialAccount", owner, userId, Undefined,
                      Throw("ConflictException"), "conflict", linked # <<>>)
    /\ UNCHANGED <<reviewVars, calls, userVars>>

linkSocialAccountLinked(userId, provider, owner, existingUser) ==
    /\ FindUser(userId) # Null
    /\ existingUser # [tag |-> "throws"]
    /\ IF existingUser = Null THEN TRUE ELSE existingUser.id = userId
    /\ Len(linked) < MaxLinks
    /\ linked' = Append(linked, [platform |-> provider, accessToken |-> "token",
                                 userId |-> userId])
    /\ last' = Called("linkSocialAccount", owner, userId, Undefined,
                      Return(Undefined), "linked", linked # <<>>)
    /\ UNCHANGED <<reviewVars, calls, pictures, bucket>>

linkSocialAccount ==
    \E userId \in UserIds, provider \in Providers, owner \in UserIds,
       existingUser \in FindUserByUndefinedEmail :
        \/ linkSocialAccountNotFound(userId, provider, owner)
        \/ linkSocialAccountLookupFailed(userId, provider, owner, existingUser)
        \/ linkSocialAccountConflict(userId, provider, owner, existingUser)
        \/ linkSocialAccountLinked(userId, provider, owner, existingUser)

UserNext ==
    \/ updateProfilePicture
    \/ linkSocialAccount

UserSpec == Init /\ [][UserNext]_vars

\* C16: updateProfilePicture orders its effects.  A type other than jpg, jpeg
\* or png is refused with BadRequestException and neither the bucket nor the
\* profilePictureUrl column is touched; the call succeeds, and the column
\* changes, only when the object for the caller's key is in the bucket; and
\* when the put rejects, the call reports InternalServerErrorException and
\* leaves the bucket and the column as they were.
C16_UploadOrdersEffects ==
    [][last'.op = "updateProfilePicture" =>
        /\ last'.arg.type \notin {"image/jpg", "image/jpeg", "image/png"} =>
              /\ Failed(last', "BadRequestException")
              /\ bucket' = bucket
              /\ pictures' = pictures
        /\ (last'.result.status = "ok" \/ pictures' # pictures) =>
              /\ last'.path = "updated"
              /\ [key |-> PictureKey(last'.user),
                  contentType |-> last'.arg.type] \in bucket'
              /\ pictures'[last'.user] = PictureUrl(last'.user)
        /\ last'.path = "put-failed" =>
              /\ Failed(last', "InternalServerErrorException")
              /\ bucket' = bucket
              /\ pictures' = pictures]_vars

\* C16 witness: the put rejected for a user with no picture yet, while another
\* user's earlier upload is stored; the failing caller still has no picture.
C16_Witness ==
    /\ last.op = "updateProfilePicture"
    /\ last.path = "put-failed"
    /\ last.user \in Users
    /\ pictures[last.user] = Null
    /\ \E u \in Users : pictures[u] # Null
    /\ bucket # {}

\* C17: linkSocialAccount answers NotFoundException and inserts nothing when
\* the target user does not exist; answers ConflictException and inserts
\* nothing when another user owns the external account's email; and inserts
\* exactly one LinkedSocialAccount row for the target otherwise.
C17_LinkChecksOwner ==
    [][last'.op = "linkSocialAccount" =>
        IF last'.target \notin Users
        THEN Failed(last', "NotFoundException") /\ linked' = linked
        ELSE IF last'.user \in Users \ {last'.target}
        THEN Failed(last', "ConflictException") /\ linked' = linked
        ELSE /\ last'.result.status = "ok"
             /\ Len(linked') = Len(linked) + 1
             /\ SubSeq(linked', 1, Len(linked)) = linked
             /\ linked'[Len(linked')].userId = last'.target]_vars

\* ================================================================== interleaving
\* The handlers as the event loop runs them: a call advances by one awaited
\* query at a time, and the queries of other calls land in between.  A slot
\* keeps what its call holds in local variables; a finished call stays in its
\* slot, with its result, until the slot takes the next call.

\* The reviews sent while calls interleave (the anonymous flag left out).
ConcurrentDtos == {dto \in CreateReviewDto : dto.anonymous = Undefined}

Free(p) == calls[p].pc \in {"idle", "done"}

\* A call: where it is, what it was called with (target is the recipient),
\* how many rows the recipient had when its first query ran (seen), the row
\* its create returned (review), the aggregate it holds (avgRatings) and,
\* once finished, its result.
Slot(pc, op, target, seen, review, avgRatings, result, path) ==
    [pc |-> pc, op |-> op, target |-> target, seen |-> seen, review |-> review,
     avgRatings |-> avgRatings, result |-> result, path |-> path]

\* getAvgUserRatings, first await: cache.get, JSON.parse and the truthiness
\* test; a hit returns at once.
getAvgUserRatingsGet(p) ==
    /\ Free(p)
    /\ \E userId \in Users :
        LET cachedRatings == JSONparse(RedisGet(cache, CacheKey(userId)))
        IN calls' = [calls EXCEPT ![p] =
                IF cacheHit(cachedRatings)
                THEN Slot("done", "getAvgUserRatings", userId, CountOf(reviews, userId),
                          Null, Null, Return(cachedRatings), "hit")
                ELSE Slot("aggregate", "getAvgUserRatings", userId, CountOf(reviews, userId),
                          Null, Null, Undefined, "miss")]
    /\ UNCHANGED <<reviewVars, last, userVars>>

\* getAvgUserRatings, second await: calculateAvgRating reads the rows as they
\* are now.
getAvgUserRatingsAggregate(p) ==
    /\ calls[p].pc = "aggregate"
    /\ calls[p].op = "getAvgUserRatings"
    /\ calls' = [calls EXCEPT ![p].pc = "set",
                              ![p].avgRatings = calculateAvgRating(reviews, calls[p].target)]
    /\ UNCHANGED <<reviewVars, last, userVars>>

\* getAvgUserRatings, third await: cache.set of the aggregate held, which is
\* then returned.
getAvgUserRatingsSet(p) ==
    /\ calls[p].pc = "set"
    /\ calls[p].op = "getAvgUserRatings"
    /\ cache' = RedisSet(cache, CacheKey(calls[p].target), JSONstringify(calls[p].avgRatings))
    /\ calls' = [calls EXCEPT ![p].pc = "done",
                              ![p].result = Return(calls[p].avgRatings)]
    /\ UNCHANGED <<reviews, favorites, last, userVars>>

\* createReview stopped by one of its checks (users do not change, so the
\* findUnique and the tests after it are one step).
createReviewCheckFailed(p) ==
    /\ Free(p)
    /\ \E user \in Users, postedToId \in Users :
        /\ createReviewCheck(user, postedToId) # "ok"
        /\ calls' = [calls EXCEPT ![p] =
                Slot("done", "createReview", postedToId, CountOf(reviews, postedToId),
                     Null, Null, Throw(createReviewCheck(user, postedToId)), "rejected")]
    /\ UNCHANGED <<reviewVars, last, userVars>>

\* createReview, the checks passed and review.create awaited: the row is in.
createReviewInsert(p) ==
    /\ Free(p)
    /\ Len(reviews) < MaxReviews
    /\ \E user \in Users, postedToId \in Users, dto \in ConcurrentDtos :
        /\ createReviewCheck(user, postedToId) = "ok"
        /\ LET anonymous == anonymousOrFalse(dto)
               row == [id |-> Len(reviews) + 1,
                       postedToId |-> postedToId,
                       postedById |-> postedByIdOf(anonymous, user),
                       professionalism |-> dto.professionalism,
                       reliability |-> dto.reliability,
                       communication |-> dto.communication,
                       anonymous |-> anonymous,
                       submittedBy |-> user]
           IN /\ reviews' = Append(reviews, row)
              /\ calls' = [calls EXCEPT ![p] =
                      Slot("aggregate", "createReview", postedToId,
                           CountOf(Append(reviews, row), postedToId),
                           includeWithReview(row, favorites, user), Null, Undefined,
                           "created")]
    /\ UNCHANGED <<favorites, cache, last, userVars>>

\* createReview, "Update the cache", first await: calculateAvgRating.
createReviewAggregate(p) ==
    /\ calls[p].pc = "aggregate"
    /\ calls[p].op = "createReview"
    /\ calls' = [calls EXCEPT ![p].pc = "set",
                              ![p].avgRatings = calculateAvgRating(reviews, calls[p].target)]
    /\ UNCHANGED <<reviewVars, last, userVars>>

\* createReview, second await of the cache update: cache.set; the shaped
\* review is then returned.
createReviewSet(p) ==
    /\ calls[p].pc = "set"
    /\ calls[p].op = "createReview"
    /\ cache' = RedisSet(cache, CacheKey(calls[p].target), JSONstringify(calls[p].avgRatings))
    /\ calls' = [calls EXCEPT ![p].pc = "done",
                              ![p].result = transformReview(calls[p].review,
                                                            calls[p].review.row.submittedBy)]
    /\ UNCHANGED <<reviews, favorites, last, userVars>>

ConcNext ==
    \E p \in Calls :
        \/ getAvgUserRatingsGet(p)
        \/ getAvgUserRatingsAggregate(p)
        \/ getAvgUserRatingsSet(p)
        \/ createReviewCheckFailed(p)
        \/ createReviewInsert(p)
        \/ createReviewAggregate(p)
        \/ createReviewSet(p)

ConcSpec == Init /\ [][ConcNext]_vars

\* Two finished getAvgUserRatings calls for one recipient that both missed,
\* the recipient having as many rows now as when each of them read the cache
\* (rows are never deleted, so none was created in between).  Both can have
\* missed only if each read the cache before the other wrote it.
MissedTogether(c, rows, p, q) ==
    /\ p # q
    /\ c[p].pc = "done" /\ c[q].pc = "done"
    /\ c[p].op = "getAvgUserRatings" /\ c[q].op = "getAvgUserRatings"
    /\ c[p].path = "miss" /\ c[q].path = "miss"
    /\ c[p].target = c[q].target
    /\ c[p].seen = CountOf(rows, c[p].target)
    /\ c[q].seen = CountOf(rows, c[q].target)

\* C14: when two getAvgUserRatings calls for the same recipient interleave,
\* both missing the cache, and no review for the recipient is created in
\* between, both return the same value, which is the aggregate of the
\* recipient's rows, both write the same text, and when the later of the two
\* writes lands the cache entry is that aggregate.
C14_ConcurrentMissesAgree ==
    [][\A p, q \in Calls :
          MissedTogether(calls', reviews', p, q) =>
              /\ calls'[p].result = calls'[q].result
              /\ calls'[p].result.status = "ok"
              /\ IsAggregateOf(calls'[p].result.body, reviews', calls'[p].target)
              /\ JSONstringify(calls'[p].avgRatings) = JSONstringify(calls'[q].avgRatings)
              /\ calls[p].pc = "set" =>
                    /\ cache'[CacheKey(calls'[p].target)] # Absent
                    /\ JSONparse(cache'[CacheKey(calls'[p].target)].value)
                         = calls'[p].result.body
                    /\ IsAggregateOf(JSONparse(cache'[CacheKey(calls'[p].target)].value),
                                     reviews', calls'[p].target)]_vars

\* C14 witness: two calls missed together for a recipient who has a review
\* (its createReview had inserted the row and not yet written the cache when
\* they read it); both hold the non-zero aggregate and the cache holds it.
C14_Witness ==
    \E p, q \in Calls :
        /\ MissedTogether(calls, reviews, p, q)
        /\ CountOf(reviews, calls[p].target) > 0
        /\ calls[p].result.body.professionalism # Zero
        /\ cache[CacheKey(calls[p].target)] # Absent
        /\ JSONparse(cache[CacheKey(calls[p].target)].value) = calls[q].result.body

\* C18: whenever no call is in flight, every cache entry present equals the
\* aggregate of its recipient's current rows.
C18_QuiescentCacheCoherent ==
    (\A p \in Calls : Free(p)) =>
        \A u \in Users :
            cache[CacheKey(u)] # Absent =>
                JSONparse(cache[CacheKey(u)].value) = calculateAvgRating(reviews, u)
====
